---------------------------- MODULE Spec2Model ----------------------------
(***************************************************************************)
(* Azure -> LeanIX reconciler (src/azure_to_leanix_v2.py).                 *)
(*                                                                         *)
(* main() lists the tagged Azure resources, obtains a token and calls      *)
(* process_it_component for every listed resource.  Every HTTP request of  *)
(* the script is one step of the model and may succeed or fail; the        *)
(* catalog (ITComponents, Applications, relations) is the remote state.    *)
(* Python strings that the script upper-cases, lower-cases, splits or      *)
(* quotes are sequences of one-character strings.                          *)
(***************************************************************************)
EXTENDS Naturals, Sequences, FiniteSets, TLC

(***************************************************************************)
(* Bounds of the model.                                                    *)
(***************************************************************************)
\* longest Azure inventory of a run
MaxResources == 2
\* number of runs of main() in a behaviour
MaxRuns == 2
\* number of failing requests in a behaviour
MaxFailures == 2
\* Applications in a catalog that get_application_id is run against by itself
MaxApplications == 3
\* characters of a name given to normalize_application_name by itself
MaxNameLen == 4

(***************************************************************************)
(* Python values.                                                          *)
(***************************************************************************)
None == <<>>
Some(x) == <<x>>
IsNone(o) == o = <<>>
IsSome(o) == o # <<>>
Get(o) == o[1]

Lowers == <<"a","b","c","d","e","f","g","h","i","j","k","l","m","n","o","p","q","r","s","t","u","v","w","x","y","z">>
Uppers == <<"A","B","C","D","E","F","G","H","I","J","K","L","M","N","O","P","Q","R","S","T","U","V","W","X","Y","Z">>

lower_char(c) ==
    IF \E i \in DOMAIN Uppers : Uppers[i] = c
    THEN Lowers[CHOOSE i \in DOMAIN Uppers : Uppers[i] = c]
    ELSE c

upper_char(c) ==
    IF \E i \in DOMAIN Lowers : Lowers[i] = c
    THEN Uppers[CHOOSE i \in DOMAIN Lowers : Lowers[i] = c]
    ELSE c

\* str.lower(), str.upper()
lower(s) == [i \in 1..Len(s) |-> lower_char(s[i])]
upper(s) == [i \in 1..Len(s) |-> upper_char(s[i])]

\* the characters str.split() and str.strip() treat as whitespace
Whitespace == {" ", "\t", "\n"}

\* str.split(): the maximal runs of non-whitespace characters, in order
RECURSIVE split_from(_, _, _)
split_from(s, i, word) ==
    IF i > Len(s)
    THEN IF word = <<>> THEN <<>> ELSE <<word>>
    ELSE IF s[i] \in Whitespace
         THEN IF word = <<>>
              THEN split_from(s, i + 1, <<>>)
              ELSE <<word>> \o split_from(s, i + 1, <<>>)
         ELSE split_from(s, i + 1, Append(word, s[i]))

split(s) == split_from(s, 1, <<>>)

\* " ".join(words)
RECURSIVE join(_)
join(words) ==
    IF words = <<>> THEN <<>>
    ELSE IF Len(words) = 1 THEN words[1]
    ELSE words[1] \o <<" ">> \o join(Tail(words))

\* str.strip()
RECURSIVE strip(_)
strip(s) ==
    IF s = <<>> THEN s
    ELSE IF s[1] \in Whitespace THEN strip(Tail(s))
    ELSE IF s[Len(s)] \in Whitespace THEN strip(SubSeq(s, 1, Len(s) - 1))
    ELSE s

\* str.startswith(prefix)
startswith(s, prefix) ==
    /\ Len(s) >= Len(prefix)
    /\ SubSeq(s, 1, Len(prefix)) = prefix

\* (mutant) internal whitespace is left as it is
normalize_trim_lower(name) ==
    IF IsNone(name) \/ Get(name) = <<>>
    THEN <<>>
    ELSE lower(strip(Get(name)))

\* normalize_application_name: a missing name is an Option that is None
normalize_application_name(name) ==
    IF IsNone(name) \/ Get(name) = <<>>
    THEN <<>>
    ELSE lower(strip(join(split(Get(name)))))

\* urllib.parse.quote: letters, digits and "_.-~/" are kept, every other
\* character becomes its percent escape
Digits == {"0","1","2","3","4","5","6","7","8","9"}
QuoteSafe == {Lowers[i] : i \in DOMAIN Lowers} \cup {Uppers[i] : i \in DOMAIN Uppers}
             \cup Digits \cup {"_", ".", "-", "~", "/"}

PercentEscape(c) ==
    CASE c = " "  -> <<"%","2","0">>
      [] c = "\t" -> <<"%","0","9">>
      [] c = "\n" -> <<"%","0","A">>
      [] OTHER    -> <<"%","?","?">>

RECURSIVE quote(_)
quote(s) ==
    IF s = <<>> THEN <<>>
    ELSE (IF s[1] \in QuoteSafe THEN <<s[1]>> ELSE PercentEscape(s[1]))
         \o quote(Tail(s))

(***************************************************************************)
(* Configuration.                                                          *)
(***************************************************************************)
PROJECT_APP_MAPPING ==
       "123" :> <<"A","u","t","h","0","-","C","A">> @@
       "ABC" :> <<"A","u","t","h","0","-","E","U">> @@
       "huhu" :> <<"A","u","t","h","0","-","U","S">> @@
       "hihi" :> <<"A","u","t","h","0","-","V","N">> @@
       "xemay" :> <<"A","u","t","h","0","-","A","S">> @@
       "xedap" :> <<"A","z","u","r","e"," ","A","D","-","V","i","n","g","r","o","u","p">> @@
       "xetai" :> <<"B","a","t","t","e","r","y"," ","S","w","a","p"," ","A","p","p">> @@
       "xeoto" :> <<"C","a","r"," ","T","r","a","c","k","e","r">> @@
       "xebo" :> <<"C","o","n","n","e","c","t","e","d"," ","C","a","r"," ","P","o","r","t","a","l","-","A","S">> @@
       "xeheo" :> <<"C","o","n","n","e","c","t","e","d"," ","C","a","r"," ","P","o","r","t","a","l","-","C","A">>

s_project == <<"p","r","o","j","e","c","t">>
s_AZURE == <<"A","Z","U","R","E","-">>

\* (mutant) the service type is used as it is written
display_name_as_written(service) == s_AZURE \o service

\* f"AZURE-{service_name.upper()}"
display_name(service) == s_AZURE \o upper(service)

\* (mutant) the key of the tag is not looked at
RECURSIVE project_tag_any_key(_)
project_tag_any_key(tags) ==
    IF tags = <<>> THEN None
    ELSE IF tags[1].Value \in DOMAIN PROJECT_APP_MAPPING
         THEN Some(tags[1].Value)
         ELSE project_tag_any_key(Tail(tags))

\* lines 473-477 (and 111-115, 362-363): the recognised project tag of a
\* resource, the first tag whose key is "project" in any letter case and
\* whose value is a key of the mapping
RECURSIVE project_tag_of(_)
project_tag_of(tags) ==
    IF tags = <<>> THEN None
    ELSE IF lower(tags[1].Key) = s_project /\ tags[1].Value \in DOMAIN PROJECT_APP_MAPPING
         THEN Some(tags[1].Value)
         ELSE project_tag_of(Tail(tags))

(***************************************************************************)
(* list_azure_resources: the resources kept, with their tags rewritten.    *)
(***************************************************************************)
resource_info(r) ==
    LET project_tag == project_tag_of(r.tags)
        others == SelectSeq(r.tags, LAMBDA t : lower(t.Key) # s_project)
    IN  [service |-> r.service,
         tags |-> Append(others, [Key |-> s_project, Value |-> Get(project_tag)])]

RECURSIVE list_azure_resources(_)
list_azure_resources(inventory) ==
    IF inventory = <<>> THEN <<>>
    ELSE (IF IsSome(project_tag_of(inventory[1].tags))
          THEN <<resource_info(inventory[1])>>
          ELSE <<>>)
         \o list_azure_resources(Tail(inventory))

\* map_resources_by_app_and_service: application name -> set of lower-cased
\* service names; an application without resources is not a key
map_resources_by_app_and_service(current_resources) ==
    LET tagged == {i \in DOMAIN current_resources :
                      IsSome(project_tag_of(current_resources[i].tags))}
        app_of(i) == PROJECT_APP_MAPPING[Get(project_tag_of(current_resources[i].tags))]
        names == {app_of(i) : i \in tagged}
    IN  [a \in names |->
            {lower(current_resources[i].service) : i \in {j \in tagged : app_of(j) = a}}]

(***************************************************************************)
(* The catalog's REST API.  Fact sheets and relations are kept in creation *)
(* order, which is the order of every list the API returns.                *)
(***************************************************************************)
Id(kind, n) == [kind |-> kind, n |-> n]

\* the id the catalog gives a new entity: the first one not in use
FreshId(kind, used) ==
    Id(kind, CHOOSE n \in 1..(Cardinality(used) + 1) :
                /\ Id(kind, n) \notin used
                /\ \A m \in 1..(n - 1) : Id(kind, m) \in used)

Range(seq) == {seq[i] : i \in DOMAIN seq}
Ids(seq) == {seq[i].id : i \in DOMAIN seq}

\* the fact sheets of one type, as 'type=T' selects them
OfType(factSheets, type) == SelectSeq(factSheets, LAMBDA f : f.type = type)

\* GET /factSheets?type=T&filter=name="X": the fact sheets of the type named X
FactSheetsNamed(factSheets, type, name) ==
    SelectSeq(OfType(factSheets, type), LAMBDA f : f.name = name)

\* GET /factSheets?type=T&query=Q: the full-text search; every fact sheet of
\* the type may be among the hits, the script filters them itself
FactSheetsQuery(factSheets, type, q) == OfType(factSheets, type)

\* GET /factSheets/{id}/relations
RelationsOf(relations, id) == SelectSeq(relations, LAMBDA r : r.fromId = id)

\* GET /factSheets/{id}: the 'data' of the answer, {} for an unknown id
FactSheetById(factSheets, id) ==
    LET hit == SelectSeq(factSheets, LAMBDA f : f.id = id)
    IN  IF hit = <<>> THEN None ELSE Some(hit[1])

\* POST /factSheets with a payload [name, type]
PostFactSheet(factSheets, payload) ==
    Append(factSheets, [id |-> FreshId(payload.type, Ids(factSheets)),
                        type |-> payload.type, name |-> payload.name])

\* POST /factSheets/{id}/relations
PostRelation(relations, fromId, toId) ==
    Append(relations, [id |-> FreshId("Relation", Ids(relations)),
                       fromId |-> fromId, toId |-> toId])

\* DELETE /factSheets/{app_id}/relations/{relation_id}
DeleteRelation(relations, app_id, relation_id) ==
    SelectSeq(relations, LAMBDA r : ~(r.id = relation_id /\ r.toId = app_id))

\* the first element of a list that satisfies Test(_), as 'for ... if ...: return'
FirstWhere(seq, Test(_)) ==
    LET hit == SelectSeq(seq, Test)
    IN  IF hit = <<>> THEN None ELSE Some(hit[1])

\* get_existing_it_component: a failed request is logged and answered None
get_existing_it_component(factSheets, service_name, ok) ==
    IF ~ok THEN None
    ELSE FirstWhere(FactSheetsNamed(factSheets, "ITComponent", display_name(service_name)),
                    LAMBDA f : f.name = display_name(service_name))

\* (mutant) the fact sheet is posted with the wrong type
it_component_payload_mistyped(resource) ==
    [name |-> display_name(resource.service), type |-> "Application"]

\* lines 219-234: the payload of the fact sheet create_it_component_factsheet posts
it_component_payload(resource) ==
    [name |-> display_name(resource.service), type |-> "ITComponent"]

\* get_application_id, the filtered search: the id of the first hit whose
\* normalized name is the normalized requested name
application_exact_match(factSheets, app_name) ==
    FirstWhere(FactSheetsNamed(factSheets, "Application", quote(app_name)),
               LAMBDA f : normalize_application_name(Some(f.name))
                          = normalize_application_name(Some(app_name)))

\* (mutant) the alternative search takes the first hit of the query
application_alternative_any(factSheets, app_name) ==
    FirstWhere(FactSheetsQuery(factSheets, "Application", app_name),
               LAMBDA f : TRUE)

\* get_application_id, the alternative search
application_alternative_match(factSheets, app_name) ==
    FirstWhere(FactSheetsQuery(factSheets, "Application", app_name),
               LAMBDA f : normalize_application_name(Some(f.name))
                          = normalize_application_name(Some(app_name)))

\* check_existing_relation: a failed request is logged and answered None
check_existing_relation(relations, it_component_id, app_id, ok) ==
    IF ~ok THEN None
    ELSE FirstWhere(RelationsOf(relations, it_component_id),
                    LAMBDA r : r.toId = app_id)

(***************************************************************************)
(* State.                                                                  *)
(***************************************************************************)
VARIABLES
    sheets,     \* catalog: the fact sheets [id, type, name]
    rels,       \* catalog: the relations [id, fromId, toId]
    azure,      \* the cloud inventory: resources [service, tags] as Azure holds them
    run,        \* main(): its position, resource list, loop index and report
    proc,       \* process_it_component: its position and local variables
    nruns,      \* calls of the entry point so far
    nfail,      \* failed requests so far
    hist        \* what the run and the current call have done (observation only)

vars == <<sheets, rels, azure, run, proc, nruns, nfail, hist>>

\* the catalog's ITComponents and Applications
itcs == OfType(sheets, "ITComponent")
apps == OfType(sheets, "Application")

(***************************************************************************)
(* The values the environment provides.                                    *)
(***************************************************************************)
s_Project == <<"P","r","o","j","e","c","t">>
s_owner == <<"o","w","n","e","r">>
s_Storage == <<"S","t","o","r","a","g","e">>
s_storage == <<"s","t","o","r","a","g","e">>
s_Disks == <<"D","i","s","k","s">>
s_Auth0AS == <<"A","u","t","h","0","-","A","S">>
s_auth0as == <<"a","u","t","h","0","-","a","s">>
s_AzureAD == <<"A","z","u","r","e"," ","A","D","-","V","i","n","g","r","o","u","p">>

Tag(k, v) == [Key |-> k, Value |-> v]

\* resources as the Azure SDK returns them (type's last segment, tags)
AzureResources ==
    { [service |-> s_Storage, tags |-> <<Tag(s_project, "xemay")>>],
      [service |-> s_storage, tags |-> <<Tag(s_Project, "xedap")>>],
      [service |-> s_Disks,   tags |-> <<Tag(s_owner, "xemay"), Tag(s_project, "unmapped")>>] }

SeqsUpTo(S, n) == UNION {[1..k -> S] : k \in 0..n}

Inventories == SeqsUpTo(AzureResources, MaxResources)

App(n, name) == [id |-> Id("Application", n), type |-> "Application", name |-> name]
Itc(n, name) == [id |-> Id("ITComponent", n), type |-> "ITComponent", name |-> name]

\* the Applications of the catalog: exactly named, named in another letter
\* case, or the application of "xemay" missing
ApplicationCatalogs ==
    { <<App(1, s_Auth0AS), App(2, s_AzureAD)>>,
      <<App(1, s_auth0as), App(2, s_AzureAD)>>,
      <<App(2, s_AzureAD)>> }

ITComponentCatalogs ==
    { <<>>, <<Itc(1, display_name(s_Storage))>> }

\* relations from the first ITComponent to some of the Applications
RECURSIVE RelationsTo(_, _, _)
RelationsTo(fromId, targets, n) ==
    IF targets = <<>> THEN <<>>
    ELSE <<[id |-> Id("Relation", n), fromId |-> fromId, toId |-> targets[1].id]>>
         \o RelationsTo(fromId, Tail(targets), n + 1)

SubSeqs(seq) ==
    {SelectSeq(seq, LAMBDA x : x \in keep) : keep \in SUBSET Range(seq)}

RelationCatalogs(itc, app) ==
    IF itc = <<>> THEN {<<>>}
    ELSE {RelationsTo(itc[1].id, targets, 1) : targets \in SubSeqs(app)}

(***************************************************************************)
(* Initial state: nothing runs, the catalog holds at most one ITComponent  *)
(* per name and at most one relation per pair.                             *)
(***************************************************************************)
IdleProc ==
    [pc |-> "idle", caller |-> "none", resource |-> None, all_resources |-> None,
     project_tag |-> None, existing_component |-> None, it_component |-> None,
     app_id |-> None, existing_relation |-> None, relation |-> None,
     relations |-> <<>>, deleted_relations |-> <<>>,
     service_name |-> <<>>, existing_relations |-> <<>>, k |-> 0]

IdleRun(pc) ==
    [pc |-> pc, resources |-> <<>>, i |-> 0, results |-> <<>>,
     statusCode |-> 0, files |-> {}]

\* the last request of a call, as the history keeps it: which request, for
\* which entity, and whether the lookup returned the entity
NoLookup == [op |-> "other", key |-> <<>>, found |-> FALSE]

\* observation of one call of process_it_component
NoCall ==
    [failed |-> FALSE, wrote |-> FALSE, writeAfterFail |-> FALSE,
     appNotFound |-> FALSE, relationPosted |-> FALSE,
     examined |-> 0,           \* relations the cleanup pass has looked at
     deleted |-> <<>>,         \* ids of the relations whose DELETE succeeded
     deleteFail |-> {},        \* ids of the relations whose DELETE failed
     existedAtLookup |-> FALSE, \* the catalog held the component at line 484
     created |-> FALSE,        \* this call has posted the ITComponent
     cleanupRan |-> FALSE,     \* this call has entered the cleanup pass
     last |-> NoLookup,        \* the last request of this call
     relLookup |-> "none",     \* line 502: "found", "absent" or "failed"
     relExisted |-> FALSE,     \* the catalog held the relation at line 502
     relCreated |-> FALSE]     \* this call has posted the relation

InitHist ==
    [call |-> NoCall,
     touched |-> FALSE,        \* this run has sent a catalog request
     clean |-> TRUE,           \* no request of this run has failed
     deleteFailed |-> FALSE,   \* a DELETE of this run has failed
     processed |-> <<>>,       \* indices main has passed to process_it_component
     raised |-> {},            \* indices whose processing raised
     startRels |-> <<>>,       \* the relations when this run started
     startSheets |-> <<>>,     \* the fact sheets when this run started
     same |-> FALSE,           \* this run lists the inventory of the previous run
     prevClean |-> FALSE,      \* no request of the previous run failed
     prevItcs |-> 0, prevRels |-> 0]  \* catalog sizes the previous run left

InitCatalog ==
    \E app \in ApplicationCatalogs, itc \in ITComponentCatalogs :
        /\ sheets = app \o itc
        /\ rels \in RelationCatalogs(itc, app)

Init ==
    /\ InitCatalog
    /\ azure \in Inventories
    /\ run = IdleRun("idle")
    /\ proc = IdleProc
    /\ nruns = 0
    /\ nfail = 0
    /\ hist = InitHist

InitDirect ==
    /\ InitCatalog
    /\ azure = <<>>
    /\ run = IdleRun("direct")
    /\ proc = IdleProc
    /\ nruns = 0
    /\ nfail = 0
    /\ hist = InitHist

(***************************************************************************)
(* Requests.  A request succeeds or fails (api_request raises); the number *)
(* of failures in a behaviour is bounded.                                  *)
(***************************************************************************)
Outcome(ok) ==
    /\ ok \/ nfail < MaxFailures
    /\ nfail' = IF ok THEN nfail ELSE nfail + 1

\* a catalog request made by process_it_component, as the history sees it
Observe(h, write, ok) ==
    [h EXCEPT !.touched = TRUE,
              !.clean = @ /\ ok,
              !.call = [@ EXCEPT !.writeAfterFail = @ \/ (write /\ h.call.failed),
                                 !.failed = @ \/ ~ok,
                                 !.wrote = @ \/ write,
                                 !.last = NoLookup]]

(***************************************************************************)
(* process_it_component, one step per request.                             *)
(***************************************************************************)
app_name_of(p) == PROJECT_APP_MAPPING[Get(p.project_tag)]

\* an element of the 'relations' list of the report entry; the source's
\* error entry carries 'error' instead of 'relation' and 'status'
RelationEntry(p, relation, status) ==
    [project |-> Get(p.project_tag), application |-> app_name_of(p),
     relation |-> relation, status |-> status]

ErrorEntry(p) == RelationEntry(p, None, "error")

\* (mutant) the cleanup pass runs whenever the resource list was passed
AfterRelationUngated(p) ==
    IF IsSome(p.all_resources)
    THEN [p EXCEPT !.pc = "cleanup_get_component"]
    ELSE [p EXCEPT !.pc = "return"]

\* lines 525-532: the cleanup pass runs only with the full resource list and
\* a component that the first lookup found
AfterRelation(p) ==
    IF IsSome(p.all_resources) /\ IsSome(p.existing_component)
    THEN [p EXCEPT !.pc = "cleanup_get_component"]
    ELSE [p EXCEPT !.pc = "return"]

\* (mutant) the exception is not caught in process_it_component
RelationFailedRaises(p) == [p EXCEPT !.pc = "raise"]

\* lines 517-523: an exception of get_application_id, check_existing_relation
\* or create_relation is recorded in the entry; the function goes on
RelationFailed(p) == AfterRelation([p EXCEPT !.relations = <<ErrorEntry(p)>>])

\* lines 471-481: the project tag; without one the call returns None
P_Start ==
    /\ proc.pc = "start"
    /\ LET project_tag == project_tag_of(Get(proc.resource).tags)
       IN  proc' = IF IsNone(project_tag)
                   THEN [proc EXCEPT !.pc = "return_none"]
                   ELSE [proc EXCEPT !.pc = "get_existing", !.project_tag = project_tag]
    /\ UNCHANGED <<sheets, rels, azure, run, nruns, nfail, hist>>

\* line 484: get_existing_it_component
P_GetExisting ==
    /\ proc.pc = "get_existing"
    /\ \E ok \in BOOLEAN :
          /\ Outcome(ok)
          /\ LET existing_component ==
                     get_existing_it_component(sheets, Get(proc.resource).service, ok)
             IN  proc' = IF IsSome(existing_component)
                         THEN [proc EXCEPT !.pc = "app_search",
                                           !.existing_component = existing_component,
                                           !.it_component = existing_component]
                         ELSE [proc EXCEPT !.pc = "create_check"]
          /\ hist' = [Observe(hist, FALSE, ok) EXCEPT
                         !.call.existedAtLookup =
                             \E i \in DOMAIN sheets :
                                 /\ sheets[i].type = "ITComponent"
                                 /\ sheets[i].name
                                        = display_name(Get(proc.resource).service)]
    /\ UNCHANGED <<sheets, rels, azure, run, nruns>>

\* (mutant) the answer of the second lookup is not looked at
P_CreateCheckIgnored ==
    /\ proc.pc = "create_check"
    /\ \E ok \in BOOLEAN :
          /\ Outcome(ok)
          /\ LET existing == get_existing_it_component(sheets, Get(proc.resource).service, ok)
             IN  /\ proc' = [proc EXCEPT !.pc = "create_post"]
                 /\ hist' = [Observe(hist, FALSE, ok) EXCEPT
                                !.call.last =
                                    [op |-> "get_existing_it_component",
                                     key |-> display_name(Get(proc.resource).service),
                                     found |-> IsSome(existing)]]
    /\ UNCHANGED <<sheets, rels, azure, run, nruns>>

\* lines 212-215: create_it_component_factsheet looks the component up again
P_CreateCheck ==
    /\ proc.pc = "create_check"
    /\ \E ok \in BOOLEAN :
          /\ Outcome(ok)
          /\ LET existing == get_existing_it_component(sheets, Get(proc.resource).service, ok)
             IN  /\ proc' = IF IsSome(existing)
                         THEN [proc EXCEPT !.pc = "app_search", !.it_component = existing]
                         ELSE [proc EXCEPT !.pc = "create_post"]
                 /\ hist' = [Observe(hist, FALSE, ok) EXCEPT
                                !.call.last =
                                    [op |-> "get_existing_it_component",
                                     key |-> display_name(Get(proc.resource).service),
                                     found |-> IsSome(existing)]]
    /\ UNCHANGED <<sheets, rels, azure, run, nruns>>

\* lines 236-256: POST of the fact sheet; a failure is raised to the caller
P_CreatePost ==
    /\ proc.pc = "create_post"
    /\ \E ok \in BOOLEAN :
          /\ Outcome(ok)
          /\ sheets' = IF ok
                       THEN PostFactSheet(sheets, it_component_payload(Get(proc.resource)))
                       ELSE sheets
          /\ proc' = IF ok
                     THEN [proc EXCEPT !.pc = "app_search",
                                       !.it_component = Some(sheets'[Len(sheets')])]
                     ELSE [proc EXCEPT !.pc = "raise"]
          /\ hist' = [Observe(hist, TRUE, ok) EXCEPT !.call.created = ok]
    /\ UNCHANGED <<rels, azure, run, nruns>>

\* lines 274-282: get_application_id, the filtered search
P_AppSearch ==
    /\ proc.pc = "app_search"
    /\ \E ok \in BOOLEAN :
          /\ Outcome(ok)
          /\ LET hit == application_exact_match(sheets, app_name_of(proc))
             IN  proc' = IF ~ok
                         THEN RelationFailed(proc)
                         ELSE IF IsSome(hit)
                         THEN [proc EXCEPT !.pc = "check_relation",
                                           !.app_id = Some(Get(hit).id)]
                         ELSE [proc EXCEPT !.pc = "app_alt_search"]
          /\ hist' = Observe(hist, FALSE, ok)
    /\ UNCHANGED <<sheets, rels, azure, run, nruns>>

\* lines 284-308: the alternative search; no hit raises "Application not found",
\* which lines 517-523 record in the entry
P_AppAltSearch ==
    /\ proc.pc = "app_alt_search"
    /\ \E ok \in BOOLEAN :
          /\ Outcome(ok)
          /\ LET hit == application_alternative_match(sheets, app_name_of(proc))
             IN  /\ proc' = IF ok /\ IsSome(hit)
                            THEN [proc EXCEPT !.pc = "check_relation",
                                              !.app_id = Some(Get(hit).id)]
                            ELSE RelationFailed(proc)
                 /\ hist' = [Observe(hist, FALSE, ok) EXCEPT
                                !.call.appNotFound = ok /\ IsNone(hit)]
    /\ UNCHANGED <<sheets, rels, azure, run, nruns>>

\* line 502: check_existing_relation; lines 504-516 for a relation found
P_CheckRelation ==
    /\ proc.pc = "check_relation"
    /\ \E ok \in BOOLEAN :
          /\ Outcome(ok)
          /\ LET existing_relation ==
                     check_existing_relation(rels, Get(proc.it_component).id,
                                             Get(proc.app_id), ok)
             IN  proc' = IF IsSome(existing_relation)
                         THEN AfterRelation(
                                [proc EXCEPT !.existing_relation = existing_relation,
                                             !.relation = existing_relation,
                                             !.relations = <<RelationEntry(proc,
                                                  existing_relation, "existing")>>])
                         ELSE [proc EXCEPT !.pc = "create_relation_check"]
          /\ hist' = [Observe(hist, FALSE, ok) EXCEPT
                         !.call.relExisted =
                             \E i \in DOMAIN rels :
                                 /\ rels[i].fromId = Get(proc.it_component).id
                                 /\ rels[i].toId = Get(proc.app_id),
                         !.call.relLookup =
                             IF ~ok THEN "failed"
                             ELSE IF \E i \in DOMAIN rels :
                                         /\ rels[i].fromId = Get(proc.it_component).id
                                         /\ rels[i].toId = Get(proc.app_id)
                                  THEN "found" ELSE "absent"]
    /\ UNCHANGED <<sheets, rels, azure, run, nruns>>

\* (mutant) create_relation does not look at the answer of its lookup
P_CreateRelationCheckIgnored ==
    /\ proc.pc = "create_relation_check"
    /\ \E ok \in BOOLEAN :
          /\ Outcome(ok)
          /\ LET existing_relation ==
                     check_existing_relation(rels, Get(proc.it_component).id,
                                             Get(proc.app_id), ok)
             IN  /\ proc' = [proc EXCEPT !.pc = "create_relation_post"]
                 /\ hist' = [Observe(hist, FALSE, ok) EXCEPT
                                !.call.last =
                                    [op |-> "check_existing_relation",
                                     key |-> <<Get(proc.it_component).id,
                                               Get(proc.app_id)>>,
                                     found |-> IsSome(existing_relation)]]
    /\ UNCHANGED <<sheets, rels, azure, run, nruns>>

\* lines 330-333: create_relation looks the relation up again; the entry's
\* status is decided by the first lookup (line 515)
P_CreateRelationCheck ==
    /\ proc.pc = "create_relation_check"
    /\ \E ok \in BOOLEAN :
          /\ Outcome(ok)
          /\ LET existing_relation ==
                     check_existing_relation(rels, Get(proc.it_component).id,
                                             Get(proc.app_id), ok)
             IN  /\ proc' = IF IsSome(existing_relation)
                         THEN AfterRelation(
                                [proc EXCEPT !.relation = existing_relation,
                                             !.relations = <<RelationEntry(proc,
                                                  existing_relation, "new")>>])
                         ELSE [proc EXCEPT !.pc = "create_relation_post"]
                 /\ hist' = [Observe(hist, FALSE, ok) EXCEPT
                                !.call.last =
                                    [op |-> "check_existing_relation",
                                     key |-> <<Get(proc.it_component).id,
                                               Get(proc.app_id)>>,
                                     found |-> IsSome(existing_relation)]]
    /\ UNCHANGED <<sheets, rels, azure, run, nruns>>

\* lines 349-355: POST of the relation; a failure is recorded in the entry
P_CreateRelationPost ==
    /\ proc.pc = "create_relation_post"
    /\ \E ok \in BOOLEAN :
          /\ Outcome(ok)
          /\ rels' = IF ok
                     THEN PostRelation(rels, Get(proc.it_component).id, Get(proc.app_id))
                     ELSE rels
          /\ proc' = IF ok
                     THEN AfterRelation(
                            [proc EXCEPT !.relation = Some(rels'[Len(rels')]),
                                         !.relations = <<RelationEntry(proc,
                                              Some(rels'[Len(rels')]), "new")>>])
                     ELSE RelationFailed(proc)
          /\ hist' = [Observe(hist, TRUE, ok) EXCEPT !.call.relationPosted = TRUE,
                                                     !.call.relCreated = ok]
    /\ UNCHANGED <<sheets, azure, run, nruns>>

(***************************************************************************)
(* cleanup_it_component_relations, one step per request.                   *)
(***************************************************************************)
\* the 'for relation in existing_relations' loop moves on, or the pass returns
NextRelation(p) ==
    IF p.k < Len(p.existing_relations)
    THEN [p EXCEPT !.pc = "cleanup_get_app", !.k = p.k + 1]
    ELSE [p EXCEPT !.pc = "return"]

\* line 441: the application has no resource of this service type any more
no_longer_has(app_service_map, app_name, service_name) ==
    \/ app_name \notin DOMAIN app_service_map
    \/ service_name \notin app_service_map[app_name]

\* lines 403-412: the component's name gives the service name; a failed
\* request gives the name '' and ends the pass
P_CleanupGetComponent ==
    /\ proc.pc = "cleanup_get_component"
    /\ \E ok \in BOOLEAN :
          /\ Outcome(ok)
          /\ LET it_component ==
                     IF ok THEN FactSheetById(sheets, Get(proc.it_component).id)
                     ELSE None
                 it_component_name ==
                     IF IsSome(it_component) THEN Get(it_component).name ELSE <<>>
             IN  proc' = IF startswith(it_component_name, s_AZURE)
                         THEN [proc EXCEPT
                                  !.pc = "cleanup_list",
                                  !.service_name =
                                      lower(SubSeq(it_component_name, Len(s_AZURE) + 1,
                                                   Len(it_component_name)))]
                         ELSE [proc EXCEPT !.pc = "return"]
          /\ hist' = [Observe(hist, FALSE, ok) EXCEPT !.call.cleanupRan = TRUE]
    /\ UNCHANGED <<sheets, rels, azure, run, nruns>>

\* lines 414-421: the relations of the component; a failed request raises
\* and the pass returns [] (lines 458-460)
P_CleanupList ==
    /\ proc.pc = "cleanup_list"
    /\ \E ok \in BOOLEAN :
          /\ Outcome(ok)
          /\ LET existing_relations ==
                     IF ok THEN RelationsOf(rels, Get(proc.it_component).id) ELSE <<>>
             IN  proc' = IF existing_relations = <<>>
                         THEN [proc EXCEPT !.pc = "return"]
                         ELSE [proc EXCEPT !.pc = "cleanup_get_app", !.k = 1,
                                           !.existing_relations = existing_relations]
          /\ hist' = Observe(hist, FALSE, ok)
    /\ UNCHANGED <<sheets, rels, azure, run, nruns>>

\* lines 428-441, 454-455: the related application's name decides
P_CleanupGetApp ==
    /\ proc.pc = "cleanup_get_app"
    /\ \E ok \in BOOLEAN :
          /\ Outcome(ok)
          /\ LET relation == proc.existing_relations[proc.k]
                 app_details == IF ok THEN FactSheetById(sheets, relation.toId)
                                ELSE None
                 app_service_map ==
                     map_resources_by_app_and_service(Get(proc.all_resources))
             IN  proc' = IF IsNone(app_details)
                         THEN NextRelation(proc)
                         ELSE IF no_longer_has(app_service_map, Get(app_details).name,
                                               proc.service_name)
                         THEN [proc EXCEPT !.pc = "cleanup_delete"]
                         ELSE NextRelation(proc)
          /\ hist' = [Observe(hist, FALSE, ok) EXCEPT !.call.examined = @ + 1]
    /\ UNCHANGED <<sheets, rels, azure, run, nruns>>

\* (mutant) delete_relation lets the request error through: the handler of
\* cleanup_it_component_relations (lines 458-460) ends the pass with []
P_CleanupDeleteRaises ==
    /\ proc.pc = "cleanup_delete"
    /\ \E ok \in BOOLEAN :
          /\ Outcome(ok)
          /\ LET relation == proc.existing_relations[proc.k]
             IN  /\ rels' = IF ok THEN DeleteRelation(rels, relation.toId, relation.id)
                            ELSE rels
                 /\ proc' = IF ok
                            THEN NextRelation(
                                   [proc EXCEPT !.deleted_relations =
                                       Append(@, [relation_id |-> relation.id,
                                                  service |-> proc.service_name,
                                                  application_id |-> relation.toId])])
                            ELSE [proc EXCEPT !.pc = "return", !.deleted_relations = <<>>]
                 /\ hist' = [Observe(hist, TRUE, ok) EXCEPT
                                !.deleteFailed = @ \/ ~ok,
                                !.call.deleted = IF ok THEN Append(@, relation.id) ELSE @,
                                !.call.deleteFail = IF ok THEN @ ELSE @ \cup {relation.id}]
    /\ UNCHANGED <<sheets, azure, run, nruns>>

\* lines 442-453 with delete_relation (386-396): a failed DELETE is logged
P_CleanupDelete ==
    /\ proc.pc = "cleanup_delete"
    /\ \E ok \in BOOLEAN :
          /\ Outcome(ok)
          /\ LET relation == proc.existing_relations[proc.k]
             IN  /\ rels' = IF ok THEN DeleteRelation(rels, relation.toId, relation.id)
                            ELSE rels
                 /\ proc' = IF ok
                            THEN NextRelation(
                                   [proc EXCEPT !.deleted_relations =
                                       Append(@, [relation_id |-> relation.id,
                                                  service |-> proc.service_name,
                                                  application_id |-> relation.toId])])
                            ELSE NextRelation(proc)
                 /\ hist' = [Observe(hist, TRUE, ok) EXCEPT
                                !.deleteFailed = @ \/ ~ok,
                                !.call.deleted = IF ok THEN Append(@, relation.id) ELSE @,
                                !.call.deleteFail = IF ok THEN @ ELSE @ \cup {relation.id}]
    /\ UNCHANGED <<sheets, azure, run, nruns>>

ProcessStep ==
    \/ P_Start
    \/ P_GetExisting
    \/ P_CreateCheck
    \/ P_CreatePost
    \/ P_AppSearch
    \/ P_AppAltSearch
    \/ P_CheckRelation
    \/ P_CreateRelationCheck
    \/ P_CreateRelationPost
    \/ P_CleanupGetComponent
    \/ P_CleanupList
    \/ P_CleanupGetApp
    \/ P_CleanupDelete

\* lines 534-540: the value process_it_component returns
ResultOf(p) ==
    [kind |-> "result",
     it_component |-> Get(p.it_component).id,
     relations |-> p.relations,
     deleted_relations |-> p.deleted_relations]

Call(caller, resource, all_resources) ==
    [IdleProc EXCEPT !.pc = "start", !.caller = caller,
                     !.resource = Some(resource), !.all_resources = all_resources]

(***************************************************************************)
(* main()                                                                  *)
(***************************************************************************)
RESULTS_FILE == "leanix_azure_integration_results.json"
ERROR_FILE == "leanix_azure_integration_error.json"

\* (mutant) the failure is swallowed and main goes on to the loop
FailedIgnored(r) == [r EXCEPT !.pc = "loop", !.i = 1]

\* lines 590-609: the handler of a failure of main
Failed(r) == [r EXCEPT !.pc = "done", !.statusCode = 500, !.files = @ \cup {ERROR_FILE}]

\* main is started
StartRun ==
    /\ run.pc = "idle"
    /\ nruns' = nruns + 1
    /\ run' = IdleRun("list")
    /\ hist' = [InitHist EXCEPT !.startRels = rels, !.startSheets = sheets]
    /\ UNCHANGED <<sheets, rels, azure, proc, nfail>>

\* line 549
M_ListResources ==
    /\ run.pc = "list"
    /\ \E ok \in BOOLEAN :
          /\ Outcome(ok)
          /\ run' = IF ok
                    THEN [run EXCEPT !.pc = "token",
                                     !.resources = list_azure_resources(azure)]
                    ELSE Failed(run)
          /\ hist' = [hist EXCEPT !.clean = @ /\ ok]
    /\ UNCHANGED <<sheets, rels, azure, proc, nruns>>

\* line 552
M_GetToken ==
    /\ run.pc = "token"
    /\ \E ok \in BOOLEAN :
          /\ Outcome(ok)
          /\ run' = IF ok THEN [run EXCEPT !.pc = "loop", !.i = 1] ELSE Failed(run)
          /\ hist' = [hist EXCEPT !.clean = @ /\ ok]
    /\ UNCHANGED <<sheets, rels, azure, proc, nruns>>

\* lines 556-558: the next resource is processed
M_Process ==
    /\ run.pc = "loop"
    /\ run.i <= Len(run.resources)
    /\ run' = [run EXCEPT !.pc = "call"]
    /\ proc' = Call("main", run.resources[run.i], Some(run.resources))
    /\ hist' = [hist EXCEPT !.call = NoCall, !.processed = Append(@, run.i)]
    /\ UNCHANGED <<sheets, rels, azure, nruns, nfail>>

\* (mutant) an exception of process_it_component ends the run
CollectedAborting(r, p) ==
    IF p.pc = "raise"
    THEN [r EXCEPT !.pc = "done", !.statusCode = 500, !.files = @ \cup {ERROR_FILE}]
    ELSE [r EXCEPT !.pc = "loop", !.i = @ + 1,
                   !.results = IF p.pc = "return" THEN Append(@, ResultOf(p)) ELSE @]

\* lines 557-565: the result is appended unless it is None, an exception
\* becomes an error record, and the loop goes on
Collected(r, p) ==
    [r EXCEPT
        !.pc = "loop",
        !.i = @ + 1,
        !.results =
            CASE p.pc = "raise" ->
                   Append(@, [kind |-> "error", resource |-> Get(p.resource)])
              [] p.pc = "return" -> Append(@, ResultOf(p))
              [] OTHER -> @]

M_Collect ==
    /\ run.pc = "call"
    /\ proc.pc \in {"return", "return_none", "raise"}
    /\ run' = Collected(run, proc)
    /\ hist' = [hist EXCEPT !.raised = IF proc.pc = "raise" THEN @ \cup {run.i} ELSE @]
    /\ proc' = IdleProc
    /\ UNCHANGED <<sheets, rels, azure, nruns, nfail>>

\* lines 567-589: the report is built and saved
M_Finish ==
    /\ run.pc = "loop"
    /\ run.i > Len(run.resources)
    /\ run' = [run EXCEPT !.pc = "done", !.statusCode = 200,
                          !.files = @ \cup {RESULTS_FILE}]
    /\ UNCHANGED <<sheets, rels, azure, proc, nruns, nfail, hist>>

Next ==
    \/ StartRun
    \/ M_ListResources
    \/ M_GetToken
    \/ M_Process
    \/ M_Collect
    \/ M_Finish
    \/ ProcessStep

Spec == Init /\ [][Next]_vars

(***************************************************************************)
(* The batch job is run again after a run has ended; between two runs the  *)
(* inventory stays or changes.                                             *)
(***************************************************************************)
Rerun ==
    /\ run.pc = "done"
    /\ nruns < MaxRuns
    /\ nruns' = nruns + 1
    /\ \E inventory \in Inventories :
          /\ azure' = inventory
          /\ hist' = [InitHist EXCEPT
                         !.startRels = rels,
                         !.startSheets = sheets,
                         !.same = (inventory = azure),
                         !.prevClean = (hist.clean /\ run.statusCode = 200),
                         !.prevItcs = Len(itcs), !.prevRels = Len(rels)]
    /\ run' = IdleRun("list")
    /\ UNCHANGED <<sheets, rels, proc, nfail>>

NextRuns ==
    \/ Next
    \/ Rerun

SpecRuns == Init /\ [][NextRuns]_vars

(***************************************************************************)
(* process_it_component called by itself, with any resource and with or    *)
(* without the resource list (all_resources=None is its default).          *)
(***************************************************************************)
D_Call ==
    /\ run.pc = "direct"
    /\ proc.pc = "idle"
    /\ nruns' = nruns + 1
    /\ \E resource \in AzureResources :
          \E all_resources \in {None, Some(<<resource>>)} :
              proc' = Call("direct", resource, all_resources)
    /\ hist' = [hist EXCEPT !.call = NoCall]
    /\ UNCHANGED <<sheets, rels, azure, run, nfail>>

\* the caller takes what the call returned or raised
D_Collect ==
    /\ run.pc = "direct"
    /\ proc.pc \in {"return", "return_none", "raise"}
    /\ run' = [run EXCEPT
                  !.pc = "done",
                  !.results =
                      CASE proc.pc = "raise" -> <<[kind |-> "raised"]>>
                        [] proc.pc = "return" -> <<ResultOf(proc)>>
                        [] OTHER -> <<[kind |-> "None"]>>]
    /\ proc' = IdleProc
    /\ UNCHANGED <<sheets, rels, azure, nruns, nfail, hist>>

NextDirect ==
    \/ D_Call
    \/ D_Collect
    \/ ProcessStep

SpecDirect == InitDirect /\ [][NextDirect]_vars

(***************************************************************************)
(* get_application_id called by itself, for a name of the mapping, against *)
(* catalogs whose Applications are named like the name, like its URL       *)
(* encoding, or in another letter case.                                    *)
(***************************************************************************)
LookupNames == {s_Auth0AS, s_auth0as, s_AzureAD, quote(s_AzureAD)}

LookupCatalogs ==
    {[i \in DOMAIN names |-> App(i, names[i])] :
        names \in SeqsUpTo(LookupNames, MaxApplications)}

LookupTags == {"xemay", "xedap"}

InitLookup ==
    /\ sheets \in LookupCatalogs
    /\ rels = <<>>
    /\ azure = <<>>
    /\ run = IdleRun("lookup")
    /\ proc = IdleProc
    /\ nruns = 0
    /\ nfail = 0
    /\ hist = InitHist

\* line 498: get_application_id(PROJECT_APP_MAPPING[project_tag], headers)
L_Call ==
    /\ run.pc = "lookup"
    /\ proc.pc = "idle"
    /\ \E tag \in LookupTags :
          proc' = [IdleProc EXCEPT !.pc = "app_search", !.caller = "lookup",
                                   !.project_tag = Some(tag)]
    /\ hist' = [hist EXCEPT !.call = NoCall]
    /\ UNCHANGED <<sheets, rels, azure, run, nruns, nfail>>

\* the caller takes the id returned, or the exception
L_Return ==
    /\ run.pc = "lookup"
    /\ proc.pc \in {"check_relation", "return"}
    /\ run' = [run EXCEPT
                  !.pc = "done",
                  !.results = IF proc.pc = "check_relation"
                              THEN <<[kind |-> "id", app_id |-> Get(proc.app_id)]>>
                              ELSE <<[kind |-> "raised"]>>]
    /\ proc' = IdleProc
    /\ UNCHANGED <<sheets, rels, azure, nruns, nfail, hist>>

NextLookup ==
    \/ L_Call
    \/ P_AppSearch
    \/ P_AppAltSearch
    \/ L_Return

SpecLookup == InitLookup /\ [][NextLookup]_vars

(***************************************************************************)
(* normalize_application_name called by itself: a name (or None) is        *)
(* rewritten in letter case, in the whitespace at its ends and in the      *)
(* length of its whitespace runs, then normalized, and the result          *)
(* normalized again.                                                       *)
(***************************************************************************)
NameChars == {"A", "a", " ", "\t"}

Names == {None} \cup {Some(n) : n \in SeqsUpTo(NameChars, MaxNameLen)}

\* the same letter in the other case
OtherCase(c) ==
    CASE c = "A" -> "a"
      [] c = "a" -> "A"
      [] OTHER -> c

InsertAt(n, i, c) == SubSeq(n, 1, i - 1) \o <<c>> \o SubSeq(n, i, Len(n))
RemoveAt(n, i) == SubSeq(n, 1, i - 1) \o SubSeq(n, i + 1, Len(n))

InitNormalize ==
    /\ sheets = <<>>
    /\ rels = <<>>
    /\ azure = <<>>
    /\ \E name \in Names :
          run = [pc |-> "normalize", name0 |-> name, name |-> name,
                 out |-> None, again |-> None]
    /\ proc = IdleProc
    /\ nruns = 0
    /\ nfail = 0
    /\ hist = InitHist

\* one letter of the name is written in the other case
N_ChangeCase ==
    /\ run.pc = "normalize" /\ IsSome(run.name) /\ IsNone(run.out)
    /\ \E i \in DOMAIN Get(run.name) :
          /\ OtherCase(Get(run.name)[i]) # Get(run.name)[i]
          /\ run' = [run EXCEPT !.name =
                         Some([Get(run.name) EXCEPT ![i] = OtherCase(@)])]
    /\ UNCHANGED <<sheets, rels, azure, proc, nruns, nfail, hist>>

\* a whitespace character is put at an end of the name or taken from it
N_PadOrTrim ==
    /\ run.pc = "normalize" /\ IsSome(run.name) /\ IsNone(run.out)
    /\ LET n == Get(run.name)
       IN  \/ /\ Len(n) < MaxNameLen
              /\ \E w \in NameChars \cap Whitespace :
                    \/ run' = [run EXCEPT !.name = Some(<<w>> \o n)]
                    \/ run' = [run EXCEPT !.name = Some(Append(n, w))]
           \/ /\ n # <<>> /\ n[1] \in Whitespace
              /\ run' = [run EXCEPT !.name = Some(Tail(n))]
           \/ /\ n # <<>> /\ n[Len(n)] \in Whitespace
              /\ run' = [run EXCEPT !.name = Some(SubSeq(n, 1, Len(n) - 1))]
    /\ UNCHANGED <<sheets, rels, azure, proc, nruns, nfail, hist>>

\* a run of whitespace inside the name is made longer or shorter
N_Stretch ==
    /\ run.pc = "normalize" /\ IsSome(run.name) /\ IsNone(run.out)
    /\ LET n == Get(run.name)
       IN  \E i \in DOMAIN n :
              /\ n[i] \in Whitespace
              /\ \/ /\ Len(n) < MaxNameLen
                    /\ \E w \in NameChars \cap Whitespace :
                          run' = [run EXCEPT !.name = Some(InsertAt(n, i, w))]
                 \/ /\ i < Len(n) /\ n[i + 1] \in Whitespace
                    /\ run' = [run EXCEPT !.name = Some(RemoveAt(n, i))]
    /\ UNCHANGED <<sheets, rels, azure, proc, nruns, nfail, hist>>

\* normalize_application_name(name)
N_Normalize ==
    /\ run.pc = "normalize" /\ IsNone(run.out)
    /\ run' = [run EXCEPT !.out = Some(normalize_application_name(run.name))]
    /\ UNCHANGED <<sheets, rels, azure, proc, nruns, nfail, hist>>

\* normalize_application_name(normalize_application_name(name))
N_NormalizeAgain ==
    /\ run.pc = "normalize" /\ IsSome(run.out) /\ IsNone(run.again)
    /\ run' = [run EXCEPT !.again = Some(normalize_application_name(run.out))]
    /\ UNCHANGED <<sheets, rels, azure, proc, nruns, nfail, hist>>

NextNormalize ==
    \/ N_ChangeCase
    \/ N_PadOrTrim
    \/ N_Stretch
    \/ N_Normalize
    \/ N_NormalizeAgain

SpecNormalize == InitNormalize /\ [][NextNormalize]_vars

(***************************************************************************)
(* Two runs of the batch job at the same time, against one catalog and     *)
(* with the same resource list of one resource.  Each run is at the call   *)
(* of process_it_component for that resource; 'proc' is the run whose      *)
(* request is served next, 'run.other' the run that waits, and the runs    *)
(* take turns between any two requests.                                    *)
(***************************************************************************)
ConcurrentResources == {list_azure_resources(<<a>>) : a \in AzureResources} \ {<<>>}

Terminal == {"return", "return_none", "raise"}

InitConcurrent ==
    /\ InitCatalog
    /\ azure = <<>>
    /\ \E resources \in ConcurrentResources :
          /\ run = [pc |-> "concurrent", resources |-> resources, i |-> 1,
                    results |-> <<>>, statusCode |-> 0, files |-> {},
                    other |-> [proc |-> Call("second", resources[1], Some(resources)),
                               call |-> NoCall]]
          /\ proc = Call("first", resources[1], Some(resources))
    /\ nruns = 2
    /\ nfail = 0
    /\ hist = [InitHist EXCEPT !.startRels = rels, !.startSheets = sheets]

\* the other run's next request is served
X_Switch ==
    /\ run.pc = "concurrent"
    /\ run.other.proc.pc \notin Terminal
    /\ proc' = run.other.proc
    /\ hist' = [hist EXCEPT !.call = run.other.call]
    /\ run' = [run EXCEPT !.other = [proc |-> proc, call |-> hist.call]]
    /\ UNCHANGED <<sheets, rels, azure, nruns, nfail>>

NextConcurrent ==
    \/ ProcessStep
    \/ X_Switch

SpecConcurrent == InitConcurrent /\ [][NextConcurrent]_vars

(***************************************************************************)
(* Properties.                                                             *)
(***************************************************************************)
\* at most one ITComponent per name and one relation per pair
UniqueCatalog ==
    /\ \A i, j \in DOMAIN itcs : itcs[i].name = itcs[j].name => i = j
    /\ \A i, j \in DOMAIN rels :
          (rels[i].fromId = rels[j].fromId /\ rels[i].toId = rels[j].toId) => i = j

\* the name of the fact sheet with this id, '' when there is none
NameOf(id) ==
    LET f == FactSheetById(sheets, id)
    IN  IF IsSome(f) THEN Get(f).name ELSE <<>>

\* some resource of the list has this (lower-cased) service type and a project
\* tag that maps to the application with this id, names compared normalized
HasResource(resources, service_name, app_id) ==
    \E i \in DOMAIN resources :
        /\ IsSome(project_tag_of(resources[i].tags))
        /\ lower(resources[i].service) = service_name
        /\ normalize_application_name(
               Some(PROJECT_APP_MAPPING[Get(project_tag_of(resources[i].tags))]))
           = normalize_application_name(Some(NameOf(app_id)))

\* the service type an ITComponent's name stands for
ServiceOf(id) == lower(SubSeq(NameOf(id), Len(s_AZURE) + 1, Len(NameOf(id))))

\* C1: a second run over the unchanged inventory, after a first run that ended
\* on the success path without any failed request, leaves no more ITComponents
\* and no more relations than the first run left.
C1_SecondRunAddsNothing ==
    (run.pc = "done" /\ run.statusCode = 200 /\ hist.same /\ hist.prevClean)
        => (Len(itcs) <= hist.prevItcs /\ Len(rels) <= hist.prevRels)

\* C2: the catalog keeps at most one ITComponent per name and at most one
\* relation per (ITComponent, Application) pair over any sequence of runs.
C2_UniquenessKept == UniqueCatalog

\* C3: at the end of a run in which no DELETE failed, every relation that
\* existed when the run started and whose application has no listed resource
\* of the component's service type is gone from the catalog.
C3_StaleRelationPruned ==
    (run.pc = "done" /\ run.statusCode = 200 /\ ~hist.deleteFailed)
        => \A r \in Range(hist.startRels) :
              ~HasResource(run.resources, ServiceOf(r.fromId), r.toId)
                  => r \notin Range(rels)

\* C4: a relation the cleanup pass has deleted is one whose application has no
\* resource of the component's service type in the current resource list, and
\* it is not the relation this call found or created for its own resource.
C4_PruneOnlyStale ==
    \A i \in DOMAIN proc.deleted_relations :
        LET d == proc.deleted_relations[i]
        IN  /\ ~HasResource(Get(proc.all_resources), d.service, d.application_id)
            /\ IsSome(proc.relation) => Get(proc.relation).id # d.relation_id

\* a resource without a tag whose key is "project" in some letter case and
\* whose value is a key of PROJECT_APP_MAPPING
Unrecognized(resource) ==
    ~\E i \in DOMAIN resource.tags :
        /\ lower(resource.tags[i].Key) = s_project
        /\ resource.tags[i].Value \in DOMAIN PROJECT_APP_MAPPING

\* C5: a call of process_it_component for a resource without a recognized
\* project tag sends no write request, does not raise, and returns None.
C5_SkipWithoutWrite ==
    (proc.pc # "idle" /\ Unrecognized(Get(proc.resource)))
        => /\ ~hist.call.wrote
           /\ ~hist.touched
           /\ proc.pc \in {"start", "return_none"}

C5_Witness ==
    /\ proc.pc = "return_none"
    /\ Unrecognized(Get(proc.resource))
    /\ IsSome(proc.all_resources)

\* C6: main passes the listed resources to process_it_component once each, in
\* order, whatever raised before; a call that raised leaves one error record
\* at its position of the report, any other call one result entry, and once
\* the loop is entered the run ends with status 200.
C6_FailureIsolation ==
    /\ hist.processed = [j \in 1..Len(hist.processed) |-> j]
    /\ run.statusCode = 500 => hist.processed = <<>>
    /\ hist.raised \subseteq DOMAIN run.results
    /\ Len(run.results) =
          IF run.pc = "call" THEN Len(hist.processed) - 1 ELSE Len(hist.processed)
    /\ \A j \in DOMAIN run.results :
          IF j \in hist.raised
          THEN run.results[j] = [kind |-> "error", resource |-> run.resources[j]]
          ELSE run.results[j].kind = "result"
    /\ (run.pc = "done" /\ run.statusCode # 500)
          => /\ run.statusCode = 200
             /\ Len(hist.processed) = Len(run.resources)

C6_Witness ==
    /\ run.pc = "done"
    /\ run.statusCode = 200
    /\ Len(run.results) = 2
    /\ hist.raised = {1}

\* C7: once a catalog request of a call has failed, the call sends no write
\* request any more, and a call that returns reports the failure in its entry.
C7_AbortsOnRequestError ==
    hist.call.failed
        => /\ ~hist.call.writeAfterFail
           /\ proc.pc = "return" => proc.relations = <<ErrorEntry(proc)>>

C9_FatalBeforeCatalog ==
    /\ run.pc \in {"list", "token"} => ~hist.touched
    /\ (~hist.clean /\ ~hist.touched) => (run.pc = "done" /\ run.statusCode = 500)
    /\ run.statusCode = 500
          => /\ run.pc = "done"
             /\ ~hist.touched
             /\ rels = hist.startRels
             /\ run.files = {ERROR_FILE}
    /\ (run.pc = "done" /\ run.statusCode # 500)
          => /\ run.statusCode = 200
             /\ run.files = {RESULTS_FILE}
    /\ run.pc # "done" => run.files = {}

C9_Witness ==
    /\ run.statusCode = 500
    /\ run.resources # <<>>

\* C10: no step changes the Applications, no step removes or changes an
\* ITComponent, and only the DELETE of the cleanup pass removes a relation.
C10_Frame ==
    [][ /\ apps' = apps
        /\ Len(itcs') >= Len(itcs)
        /\ \A i \in DOMAIN itcs : itcs'[i] = itcs[i]
        /\ (\E r \in Range(rels) : r \notin Range(rels')) => proc.pc = "cleanup_delete"
      ]_vars

C10_Witness ==
    /\ nfail = 0
    /\ run.pc = "done"
    /\ Len(itcs) > Len(OfType(hist.startSheets, "ITComponent"))
    /\ Len(run.results) = 2
    /\ run.results[2].deleted_relations # <<>>

\* the ids listed in deleted_relations of a call, in order
DeletedIds(p) == [i \in DOMAIN p.deleted_relations |-> p.deleted_relations[i].relation_id]

\* C11: a failed DELETE does not make process_it_component raise, is not
\* listed in deleted_relations, leaves the entry's 'relations' as they were,
\* and the pass looks at every relation of the component; deleted_relations
\* lists exactly the relations whose DELETE succeeded.
C11_BestEffortDelete ==
    /\ [](/\ (proc.pc # "idle") => DeletedIds(proc) = hist.call.deleted
          /\ \A i \in DOMAIN proc.deleted_relations :
                proc.deleted_relations[i].relation_id \notin hist.call.deleteFail
          /\ (hist.call.deleteFail # {}) => proc.pc # "raise"
          /\ (proc.pc = "return" /\ proc.existing_relations # <<>>)
                => hist.call.examined = Len(proc.existing_relations)
          /\ (proc.pc = "return" /\ proc.relations # <<>>
                 /\ proc.relations[1].status = "error")
                => (hist.call.appNotFound \/ hist.call.failed))
    /\ [][proc.pc = "cleanup_delete"
             => (proc'.relations = proc.relations /\ proc'.pc # "raise")]_vars

\* a pass in which one DELETE succeeded and a later one failed has returned
C11_Witness ==
    /\ proc.pc = "return"
    /\ hist.call.deleteFail # {}
    /\ proc.deleted_relations # <<>>
    /\ hist.call.examined = 2

\* C12: the cleanup pass of a call is entered, and a relation deleted, only
\* when the catalog held the resource's ITComponent at the call's first
\* lookup, the call has not created the component, and the resource list was
\* passed; a call that created its component deletes no relation.
C12_CleanupGate ==
    /\ hist.call.cleanupRan =>
          /\ hist.call.existedAtLookup
          /\ ~hist.call.created
          /\ (proc.pc # "idle") => IsSome(proc.all_resources)
    /\ (hist.call.deleted # <<>>) => hist.call.cleanupRan
    /\ hist.call.created =>
          /\ hist.call.deleted = <<>>
          /\ (proc.pc # "idle") => proc.deleted_relations = <<>>

\* a call given the resource list has found its component and deleted a relation
C12_Witness ==
    /\ proc.pc = "return"
    /\ hist.call.cleanupRan
    /\ hist.call.existedAtLookup
    /\ IsSome(proc.all_resources)
    /\ proc.deleted_relations # <<>>

\* C13: a fact sheet is posted only as the step after the lookup of
\* create_it_component_factsheet returned None for the posted name, and a
\* relation only as the step after the lookup of create_relation returned
\* None for the posted pair; when either lookup returns the entity, the create
\* call returns that entity and posts nothing.
C13_CheckThenAct ==
    [][/\ (Len(sheets') > Len(sheets)) =>
             hist.call.last = [op |-> "get_existing_it_component",
                               key |-> sheets'[Len(sheets')].name,
                               found |-> FALSE]
       /\ (Len(rels') > Len(rels)) =>
             hist.call.last = [op |-> "check_existing_relation",
                               key |-> <<rels'[Len(rels')].fromId,
                                         rels'[Len(rels')].toId>>,
                               found |-> FALSE]
       /\ (proc.pc = "create_check" /\ hist'.call.last.found) =>
             /\ sheets' = sheets
             /\ proc'.pc # "create_post"
             /\ Get(proc'.it_component) \in Range(itcs)
             /\ Get(proc'.it_component).name = hist'.call.last.key
       /\ (proc.pc = "create_relation_check" /\ hist'.call.last.found) =>
             /\ rels' = rels
             /\ proc'.pc # "create_relation_post"
             /\ Get(proc'.relation) \in Range(rels)
             /\ <<Get(proc'.relation).fromId, Get(proc'.relation).toId>>
                    = hist'.call.last.key
      ]_vars

\* a call has posted its ITComponent and its relation, each after its lookup
C13_Witness ==
    /\ proc.pc = "return"
    /\ hist.call.created
    /\ hist.call.relationPosted
    /\ proc.relations # <<>>
    /\ proc.relations[1].status = "new"
    /\ IsSome(proc.relation)
    /\ Get(proc.relation) \in Range(rels)

\* the second lookup of a create call has found the entity the first missed
C13_WitnessFound ==
    /\ hist.call.last.found
    /\ ~hist.call.created

\* the positions of a search result whose normalized name is the normalized
\* requested name, and the first fact sheet among them
Matching(result, app_name) ==
    {i \in DOMAIN result :
        normalize_application_name(Some(result[i].name))
            = normalize_application_name(Some(app_name))}

FirstMatching(result, app_name) ==
    result[CHOOSE i \in Matching(result, app_name) :
              \A j \in Matching(result, app_name) : i <= j]

\* C14: get_application_id returns the first fact sheet of the filtered
\* search with an equal normalized name; it sends the broader query only when
\* there is none, and then returns the first such fact sheet of that result;
\* with both requests answered it raises exactly when neither result holds
\* one; the fact sheet of a returned id has an equal normalized name.
C14_ApplicationLookup ==
    LET app_name == app_name_of(proc)
        filtered == FactSheetsNamed(sheets, "Application", quote(app_name))
        broader == FactSheetsQuery(sheets, "Application", app_name)
    IN  (proc.caller = "lookup") =>
          /\ (proc.pc = "app_alt_search") => Matching(filtered, app_name) = {}
          /\ (proc.pc = "check_relation") =>
                /\ IF Matching(filtered, app_name) # {}
                   THEN Get(proc.app_id) = FirstMatching(filtered, app_name).id
                   ELSE /\ Matching(broader, app_name) # {}
                        /\ Get(proc.app_id) = FirstMatching(broader, app_name).id
                /\ normalize_application_name(Some(NameOf(Get(proc.app_id))))
                      = normalize_application_name(Some(app_name))
          /\ (proc.pc \in {"check_relation", "return"} /\ ~hist.call.failed) =>
                /\ hist.call.appNotFound
                      <=> (Matching(filtered, app_name) = {}
                             /\ Matching(broader, app_name) = {})
                /\ hist.call.appNotFound <=> proc.pc = "return"

\* the filtered search has returned a fact sheet named like the encoded name,
\* and the broader query has given the id of the second Application
C14_Witness ==
    /\ proc.caller = "lookup"
    /\ proc.pc = "check_relation"
    /\ FactSheetsNamed(sheets, "Application", quote(app_name_of(proc))) # <<>>
    /\ Matching(FactSheetsNamed(sheets, "Application", quote(app_name_of(proc))),
                app_name_of(proc)) = {}
    /\ Get(proc.app_id) = Id("Application", 2)

\* no fact sheet matches and the call has raised "Application not found"
C14_WitnessNotFound ==
    /\ proc.caller = "lookup"
    /\ proc.pc = "return"
    /\ hist.call.appNotFound
    /\ Len(sheets) = MaxApplications

\* C15: in the entry of a resource whose application was found, the status
\* is "new" exactly when the catalog held no relation of the pair at the
\* call's lookup and the call then posted one, and "existing" exactly when the
\* lookup found the relation, and then the call posts none; a call that found
\* no component creates the component and the relation and reports "new".
C15_RelationStatus ==
    (proc.pc # "idle" /\ proc.relations # <<>>
       /\ proc.relations[1].status # "error") =>
        LET status == proc.relations[1].status
        IN  /\ (status = "new") <=> (~hist.call.relExisted /\ hist.call.relCreated)
            /\ (status = "existing") <=> (hist.call.relLookup = "found")
            /\ (status = "existing") => ~hist.call.relCreated
            /\ ~hist.call.existedAtLookup =>
                  (hist.call.created /\ hist.call.relCreated /\ status = "new")

\* the component names the specification gives, written out
s_virtualMachines == <<"v","i","r","t","u","a","l","M","a","c","h","i","n","e","s">>
s_AZURE_VIRTUALMACHINES ==
    <<"A","Z","U","R","E","-","V","I","R","T","U","A","L","M","A","C","H","I","N","E","S">>
s_AZURE_STORAGE == <<"A","Z","U","R","E","-","S","T","O","R","A","G","E">>
s_AZURE_DISKS == <<"A","Z","U","R","E","-","D","I","S","K","S">>

ExpectedName(service) ==
    CASE service \in {s_Storage, s_storage} -> s_AZURE_STORAGE
      [] service = s_Disks -> s_AZURE_DISKS
      [] service = s_virtualMachines -> s_AZURE_VIRTUALMACHINES

\* C16: the name a call looks its ITComponent up by, the name it creates it
\* with and the name of the component it uses are "AZURE-" followed by the
\* upper-cased service type; in a run without a failed request two resources
\* whose service types differ only in letter case get the same ITComponent.
C16_ComponentName ==
    /\ display_name(s_virtualMachines) = s_AZURE_VIRTUALMACHINES
    /\ (hist.call.last.op = "get_existing_it_component" /\ proc.pc # "idle") =>
          hist.call.last.key = ExpectedName(Get(proc.resource).service)
    /\ (proc.pc # "idle" /\ IsSome(proc.it_component)) =>
          /\ Get(proc.it_component).name = ExpectedName(Get(proc.resource).service)
          /\ Get(proc.it_component) \in Range(itcs)
    /\ (run.pc = "done" /\ run.statusCode = 200 /\ hist.clean) =>
          /\ Len(run.results) = Len(run.resources)
          /\ \A i, j \in DOMAIN run.results :
                lower(run.resources[i].service) = lower(run.resources[j].service)
                    => /\ run.results[i].kind = "result"
                       /\ run.results[j].kind = "result"
                       /\ run.results[i].it_component = run.results[j].it_component

\* a run has created AZURE-STORAGE for "Storage" and used it for "storage"
C16_Witness ==
    /\ run.pc = "done"
    /\ hist.clean
    /\ OfType(hist.startSheets, "ITComponent") = <<>>
    /\ Len(run.results) = 2
    /\ run.resources[1].service = s_Storage
    /\ run.resources[2].service = s_storage
    /\ run.results[1].it_component = run.results[2].it_component
    /\ NameOf(run.results[1].it_component) = s_AZURE_STORAGE

\* the names of the specification's example, written out
s_Auth0_EU_spaced == <<" ","A","u","t","h","0"," "," ","E","U"," ">>
s_auth0_eu == <<"a","u","t","h","0"," ","e","u">>

\* C17: a name rewritten in letter case, in the whitespace at its ends or in
\* the length of its whitespace runs has the normalized value of the name it was
\* rewritten from; normalizing a normalized value gives the same value; a
\* missing or empty name has the value ''.
C17_Normalization ==
    /\ normalize_application_name(Some(s_Auth0_EU_spaced)) = s_auth0_eu
    /\ normalize_application_name(Some(s_auth0_eu)) = s_auth0_eu
    /\ normalize_application_name(None) = <<>>
    /\ (run.pc = "normalize" /\ IsSome(run.out)) =>
          /\ Get(run.out) = normalize_application_name(run.name0)
          /\ (run.name0 \in {None, Some(<<>>)}) => Get(run.out) = <<>>
          /\ IsSome(run.again) => Get(run.again) = Get(run.out)

\* a name rewritten in all three ways has been normalized twice
C17_Witness ==
    /\ run.pc = "normalize"
    /\ run.name0 = Some(<<"A", " ", "a">>)
    /\ run.name = Some(<<"a", "\t", " ", "A">>)
    /\ run.out = Some(<<"a", " ", "a">>)
    /\ run.again = run.out

\* two ITComponents of one name; two relations of one pair
DuplicateComponent ==
    \E i, j \in DOMAIN itcs : i # j /\ itcs[i].name = itcs[j].name

DuplicateRelation ==
    \E i, j \in DOMAIN rels :
        i # j /\ rels[i].fromId = rels[j].fromId /\ rels[i].toId = rels[j].toId

\* C18: with two runs at the same time each run still posts only after its
\* own lookup returned None, and without any failed request the catalog gets
\* two ITComponents of a name, or two relations of a pair, only by both runs
\* posting the entity; the witnesses reach both duplicates.
C18_RaceNotExcluded ==
    /\ [][/\ (Len(sheets') > Len(sheets)) =>
                (hist.call.last.op = "get_existing_it_component"
                   /\ hist.call.last.key = sheets'[Len(sheets')].name
                   /\ ~hist.call.last.found)
          /\ (Len(rels') > Len(rels)) =>
                (hist.call.last.op = "check_existing_relation"
                   /\ hist.call.last.key[1] = rels'[Len(rels')].fromId
                   /\ hist.call.last.key[2] = rels'[Len(rels')].toId
                   /\ ~hist.call.last.found)]_vars
    /\ []((nfail = 0 /\ DuplicateComponent) =>
              (hist.call.created /\ run.other.call.created))
    /\ []((nfail = 0 /\ DuplicateRelation /\ ~DuplicateComponent) =>
              (hist.call.relCreated /\ run.other.call.relCreated))

\* both runs have ended without a failed request and the catalog holds two
\* ITComponents of one name
C18_Witness ==
    /\ run.pc = "concurrent"
    /\ nfail = 0
    /\ proc.pc = "return"
    /\ run.other.proc.pc = "return"
    /\ DuplicateComponent

\* the same for two relations of one pair on one ITComponent
C18_WitnessRelation ==
    /\ run.pc = "concurrent"
    /\ nfail = 0
    /\ proc.pc = "return"
    /\ run.other.proc.pc = "return"
    /\ ~DuplicateComponent
    /\ DuplicateRelation

====
